---- MODULE Spec2Model ----
(***************************************************************************)
(* backup_server: the in-memory session store (internal/auth), the        *)
(* handlers with their authentication middleware (internal/handlers) and  *)
(* the persistent store they query (internal/database).                   *)
(*                                                                         *)
(* Time is counted in hours.  A handler that touches shared state once or  *)
(* whose accesses are all made before it answers is one action; the two    *)
(* file-serving handlers are stepped call by call, since other requests    *)
(* are served in parallel between their calls.  Every database call can    *)
(* fail (a locked or unreadable database file): the failure of each call   *)
(* is an input of the action that makes it.                                *)
(***************************************************************************)
EXTENDS Integers, Sequences, FiniteSets, TLC

VARIABLES
    sessions,   \* SessionStore.sessions: token -> Session
    issued,     \* number of tokens Create has generated so far
    removed,    \* history: tokens whose Delete or sweep eviction has completed
    now,        \* time.Now(), in hours
    db,         \* the SQLite database: groups, users, user_groups, files, sqlite_sequence
    resp,       \* the answer to the request handled last
    dl,         \* the file-serving request in progress (DownloadFile / ServeWorldFile)
    nMut,       \* number of requests that have changed the database so far
    mu,         \* SessionStore.mu, the sync.RWMutex: writer held, readers inside
    gor,        \* the goroutines inside a SessionStore method: where each one is
    tx          \* the call of DB.UpdateUser in progress and its open transaction

vars == <<sessions, issued, removed, now, db, resp, dl, nMut, mu, gor, tx>>

----------------------------------------------------------------------------
(* Bounds of the model *)

MaxSessions == 2        \* tokens Create may generate
MaxTime == 36           \* the clock stops here
MaxMut == 1             \* requests that change the database in one behaviour

(* Program constants *)

TTL == 24               \* Create: time.Now().Add(24 * time.Hour)

TickStep == TTL \div 2

----------------------------------------------------------------------------
(* Small helpers *)

Range(s) == {s[i] : i \in 1..Len(s)}

RECURSIVE SortedSeq(_)
SortedSeq(S) ==
    IF S = {} THEN <<>>
    ELSE LET m == CHOOSE x \in S : \A y \in S : x <= y
         IN <<m>> \o SortedSeq(S \ {m})

Restrict(f, S) == [x \in S |-> f[x]]

Extend(f, k, v) == [x \in DOMAIN f \cup {k} |-> IF x = k THEN v ELSE f[x]]

----------------------------------------------------------------------------
(* internal/auth: the session store *)

(* A random source that repeats itself *)
TokenNames_Repeating == <<"t1", "t1", "t1", "t1">>

TokenNames == <<"t1", "t2", "t3", "t4">>

NoCookie == "none"      \* the request carries no session_id cookie
Forged == "forged"      \* a cookie value that Create never generated

NilSession == [UserID |-> 0, Username |-> "", GroupIDs |-> <<>>, Expires |-> 0]

IssuedTokens == {TokenNames[i] : i \in 1..issued}

(* time.Time.Before *)
Before(t, u) == t < u

(* Create dropping the sessions the same user already has *)
Create_OnePerUser(store, n, userID, username, groupIDs, t) ==
    LET sessionID == TokenNames[n + 1]
        others == {id \in DOMAIN store : store[id].UserID # userID}
    IN [token |-> sessionID,
        sessions |-> Extend(Restrict(store, others), sessionID,
                            [UserID |-> userID, Username |-> username,
                             GroupIDs |-> groupIDs, Expires |-> t + TTL])]

(* SessionStore.Create: the token is 32 fresh random bytes, so it differs *)
(* from every token generated before; the map gets the one new entry.    *)
Create(store, n, userID, username, groupIDs, t) ==
    LET sessionID == TokenNames[n + 1]
    IN [token |-> sessionID,
        sessions |-> Extend(store, sessionID,
                            [UserID |-> userID, Username |-> username,
                             GroupIDs |-> groupIDs, Expires |-> t + TTL])]

(* SessionStore.Get *)
Get(store, sessionID, t) ==
    IF sessionID \notin DOMAIN store \/ Before(store[sessionID].Expires, t)
    THEN [session |-> NilSession, exists |-> FALSE]
    ELSE [session |-> store[sessionID], exists |-> TRUE]

(* Delete treating a missing key as a fault and starting from an empty map *)
Delete_AbsentResets(store, sessionID) ==
    IF sessionID \in DOMAIN store
    THEN Restrict(store, DOMAIN store \ {sessionID})
    ELSE <<>>

(* Delete without the delete(s.sessions, sessionID) *)
Delete_Kept(store, sessionID) == store

(* SessionStore.Delete *)
Delete(store, sessionID) == Restrict(store, DOMAIN store \ {sessionID})

(* The test of the loop with After in place of Before *)
Evicted_After(store, t) == {id \in DOMAIN store : Before(t, store[id].Expires)}

(* One pass of the loop of SessionStore.cleanupExpired *)
Evicted(store, t) == {id \in DOMAIN store : Before(store[id].Expires, t)}

(* The loop leaving after its first delete *)
SweepPass_FirstOnly(store, t) ==
    IF Evicted(store, t) = {} THEN store
    ELSE Restrict(store, DOMAIN store \ {CHOOSE id \in Evicted(store, t) : TRUE})

SweepPass(store, t) == Restrict(store, DOMAIN store \ Evicted(store, t))

(* GetSessionFromRequest: the cookie's value, or an error without cookie *)
GetSessionFromRequest(cookie) ==
    [sessionID |-> IF cookie = NoCookie THEN "" ELSE cookie, err |-> cookie = NoCookie]

----------------------------------------------------------------------------
(* internal/database *)

(* InitDB opens "backup_server.db" with no _foreign_keys parameter and runs *)
(* no PRAGMA: SQLite then leaves the FOREIGN KEY clauses of the schema      *)
(* unenforced, so neither ON DELETE CASCADE nor the reference check acts.   *)
ForeignKeys == FALSE

GroupNames == <<"admins", "staff", "users">>      \* in ORDER BY name order

(* bcrypt: the hash of a password, and the comparison of a hash with one *)
GenerateFromPassword(password) == <<"bcrypt", password>>
CompareHashAndPassword(hash, password) == hash = <<"bcrypt", password>>

(* The database after cmd/init: the default users of the README. *)
InitDB ==
    [groups |-> (1 :> "admins") @@ (2 :> "users"),
     users |-> (1 :> [username |-> "admin", password_hash |-> GenerateFromPassword("admin")])
            @@ (2 :> [username |-> "user1", password_hash |-> GenerateFromPassword("password")])
            @@ (3 :> [username |-> "user2", password_hash |-> GenerateFromPassword("password")]),
     user_groups |-> {<<1, 1>>, <<2, 2>>, <<3, 2>>, <<3, 1>>},
     files |-> (1 :> [file_path |-> "/etc/hosts", group_id |-> 1])
            @@ (2 :> [file_path |-> "/home/u/.bashrc", group_id |-> 2]),
     seq |-> [groups |-> 2, users |-> 3, files |-> 2]]

(* A result of a call that returns (value, error) or error *)
Ok(d) == [db |-> d, err |-> FALSE]
Failed(d) == [db |-> d, err |-> TRUE]

(* DB.CreateGroup: name is UNIQUE NOT NULL, id is AUTOINCREMENT *)
CreateGroup(d, name, ioErr) ==
    IF ioErr \/ \E g \in DOMAIN d.groups : d.groups[g] = name
    THEN Failed(d)
    ELSE Ok([d EXCEPT !.groups = Extend(d.groups, d.seq.groups + 1, name),
                      !.seq.groups = d.seq.groups + 1])

(* DB.UpdateGroup: an id that matches no row updates nothing, without error *)
UpdateGroup(d, groupID, name, ioErr) ==
    IF ioErr \/ (groupID \in DOMAIN d.groups
                 /\ \E g \in DOMAIN d.groups \ {groupID} : d.groups[g] = name)
    THEN Failed(d)
    ELSE IF groupID \in DOMAIN d.groups
    THEN Ok([d EXCEPT !.groups[groupID] = name])
    ELSE Ok(d)

(* DB.DeleteGroup *)
DeleteGroup(d, groupID, ioErr) ==
    IF ioErr \/ (ForeignKeys /\ \E f \in DOMAIN d.files : d.files[f].group_id = groupID)
    THEN Failed(d)
    ELSE Ok([d EXCEPT !.groups = Restrict(d.groups, DOMAIN d.groups \ {groupID}),
                      !.user_groups = IF ForeignKeys
                                      THEN {m \in d.user_groups : m[2] # groupID}
                                      ELSE d.user_groups])

(* DB.GetGroupFileCount: (count, err); count stays 0 when the query fails *)
GetGroupFileCount(d, groupID, ioErr) ==
    [count |-> IF ioErr THEN 0
               ELSE Cardinality({f \in DOMAIN d.files : d.files[f].group_id = groupID}),
     err |-> ioErr]

(* DB.GetAllGroups: SELECT id, name FROM groups ORDER BY name; name is *)
(* UNIQUE, so each name is the name of at most one row                *)
GroupsByName(d) ==
    LET named == SelectSeq(GroupNames, LAMBDA n : \E g \in DOMAIN d.groups : d.groups[g] = n)
    IN [k \in 1..Len(named) |->
           [ID |-> CHOOSE g \in DOMAIN d.groups : d.groups[g] = named[k], Name |-> named[k]]]

GetAllGroups(d, ioErr) ==
    [groups |-> IF ioErr THEN <<>> ELSE GroupsByName(d), err |-> ioErr]

(* DB.UserHasAccessToGroup *)
UserHasAccessToGroup(d, userID, groupID, ioErr) ==
    [access |-> ~ioErr /\ Cardinality({m \in d.user_groups : m = <<userID, groupID>>}) > 0,
     err |-> ioErr]

(* GetUserByUsername without the query of user_groups *)
GetUserByUsername_NoGroups(d, username, ioErr) ==
    LET ids == {u \in DOMAIN d.users : d.users[u].username = username}
    IN IF ioErr \/ ids = {}
       THEN [err |-> TRUE, ID |-> 0, Username |-> "", Password |-> <<>>, GroupIDs |-> <<>>]
       ELSE LET u == CHOOSE u \in ids : TRUE
            IN [err |-> FALSE, ID |-> u, Username |-> d.users[u].username,
                Password |-> d.users[u].password_hash, GroupIDs |-> <<>>]

(* DB.GetUserByUsername: the user row and its group ids, in the order of *)
(* the primary key index of user_groups                                   *)
GetUserByUsername(d, username, ioErr) ==
    LET ids == {u \in DOMAIN d.users : d.users[u].username = username}
    IN IF ioErr \/ ids = {}
       THEN [err |-> TRUE, ID |-> 0, Username |-> "", Password |-> <<>>, GroupIDs |-> <<>>]
       ELSE LET u == CHOOSE u \in ids : TRUE
            IN [err |-> FALSE, ID |-> u, Username |-> d.users[u].username,
                Password |-> d.users[u].password_hash,
                GroupIDs |-> SortedSeq({m[2] : m \in {x \in d.user_groups : x[1] = u}})]

(* DB.ValidateUser *)
ValidateUser(d, username, password, ioErr) ==
    LET user == GetUserByUsername(d, username, ioErr)
    IN IF user.err THEN user
       ELSE IF ~CompareHashAndPassword(user.Password, password)
       THEN [user EXCEPT !.err = TRUE]
       ELSE user

(* DB.GetFilesByGroupIDs: SELECT DISTINCT ... WHERE group_id IN (...); no *)
(* query at all for an empty list.  files is the set of ids of the rows.  *)
GetFilesByGroupIDs(d, groupIDs, ioErr) ==
    IF Len(groupIDs) = 0 THEN [files |-> {}, err |-> FALSE]
    ELSE IF ioErr THEN [files |-> {}, err |-> TRUE]
    ELSE [files |-> {f \in DOMAIN d.files : d.files[f].group_id \in Range(groupIDs)},
          err |-> FALSE]

(* DB.GetAllFiles *)
GetAllFiles(d, ioErr) == [files |-> IF ioErr THEN {} ELSE DOMAIN d.files, err |-> ioErr]

(* DB.GetFileByID *)
GetFileByID(d, fileID, ioErr) ==
    IF ioErr \/ fileID \notin DOMAIN d.files
    THEN [err |-> TRUE, ID |-> 0, FilePath |-> "", GroupID |-> 0]
    ELSE [err |-> FALSE, ID |-> fileID, FilePath |-> d.files[fileID].file_path,
          GroupID |-> d.files[fileID].group_id]

(* DB.AddFile *)
AddFile(d, filePath, groupID, ioErr) ==
    IF ioErr \/ (ForeignKeys /\ groupID \notin DOMAIN d.groups)
    THEN Failed(d)
    ELSE Ok([d EXCEPT !.files = Extend(d.files, d.seq.files + 1,
                                       [file_path |-> filePath, group_id |-> groupID]),
                      !.seq.files = d.seq.files + 1])

(* DB.UpdateFile *)
UpdateFile(d, fileID, filePath, groupID, ioErr) ==
    IF ioErr \/ (ForeignKeys /\ fileID \in DOMAIN d.files /\ groupID \notin DOMAIN d.groups)
    THEN Failed(d)
    ELSE IF fileID \in DOMAIN d.files
    THEN Ok([d EXCEPT !.files[fileID] = [file_path |-> filePath, group_id |-> groupID]])
    ELSE Ok(d)

(* DB.DeleteFile *)
DeleteFile(d, fileID, ioErr) ==
    IF ioErr THEN Failed(d)
    ELSE Ok([d EXCEPT !.files = Restrict(d.files, DOMAIN d.files \ {fileID})])

(* The INSERTs of a membership list inside a transaction: a pair that is *)
(* already there violates the primary key (user_id, group_id)            *)
RECURSIVE InsertMemberships(_, _, _, _)
InsertMemberships(rows, userID, groupIDs, groupsTable) ==
    IF groupIDs = <<>> THEN [rows |-> rows, err |-> FALSE]
    ELSE IF <<userID, Head(groupIDs)>> \in rows
            \/ (ForeignKeys /\ Head(groupIDs) \notin DOMAIN groupsTable)
    THEN [rows |-> rows, err |-> TRUE]
    ELSE InsertMemberships(rows \cup {<<userID, Head(groupIDs)>>}, userID,
                           Tail(groupIDs), groupsTable)

(* DB.CreateUser: one transaction, rolled back on the first failure *)
CreateUser(d, username, password, groupIDs, ioErr) ==
    LET userID == d.seq.users + 1
        ins == InsertMemberships(d.user_groups, userID, groupIDs, d.groups)
    IN IF ioErr \/ (\E u \in DOMAIN d.users : d.users[u].username = username) \/ ins.err
       THEN Failed(d)
       ELSE Ok([d EXCEPT !.users = Extend(d.users, userID,
                                          [username |-> username,
                                           password_hash |-> GenerateFromPassword(password)]),
                         !.user_groups = ins.rows,
                         !.seq.users = userID])

(* DB.UpdateUser: one transaction, rolled back on the first failure *)
UpdateUser(d, userID, username, groupIDs, ioErr) ==
    LET cleared == {m \in d.user_groups : m[1] # userID}
        ins == InsertMemberships(cleared, userID, groupIDs, d.groups)
    IN IF ioErr
          \/ (userID \in DOMAIN d.users
              /\ \E u \in DOMAIN d.users \ {userID} : d.users[u].username = username)
          \/ ins.err
          \/ (ForeignKeys /\ userID \notin DOMAIN d.users /\ groupIDs # <<>>)
       THEN Failed(d)
       ELSE Ok([d EXCEPT !.users = IF userID \in DOMAIN d.users
                                   THEN [d.users EXCEPT ![userID].username = username]
                                   ELSE d.users,
                         !.user_groups = ins.rows])

(* DB.UpdateUserPassword *)
UpdateUserPassword(d, userID, password, ioErr) ==
    IF ioErr THEN Failed(d)
    ELSE IF userID \in DOMAIN d.users
    THEN Ok([d EXCEPT !.users[userID].password_hash = GenerateFromPassword(password)])
    ELSE Ok(d)

(* DB.DeleteUser *)
DeleteUser(d, userID, ioErr) ==
    IF ioErr THEN Failed(d)
    ELSE Ok([d EXCEPT !.users = Restrict(d.users, DOMAIN d.users \ {userID}),
                      !.user_groups = IF ForeignKeys
                                      THEN {m \in d.user_groups : m[1] # userID}
                                      ELSE d.user_groups])

----------------------------------------------------------------------------
(* internal/handlers *)

(* strconv.Atoi on a form or query value *)
Digits == <<"1", "2", "3", "4", "5">>
Atoi(str) ==
    IF \E i \in 1..Len(Digits) : Digits[i] = str
    THEN [n |-> CHOOSE i \in 1..Len(Digits) : Digits[i] = str, err |-> FALSE]
    ELSE [n |-> 0, err |-> TRUE]

(* The answer of a handler: the new database, the status code and the    *)
(* body or redirect target, and the cookie the answer sets ("" for none) *)
Answer(d, status, msg) == [db |-> d, status |-> status, msg |-> msg, set |-> ""]

LoginEntry == "/"

(* auth.ClearSessionCookie: the Set-Cookie header with the empty value and *)
(* MaxAge -1, which net/http writes as Max-Age=0                           *)
ClearSessionCookie == "session_id=; Path=/; Max-Age=0; HttpOnly"

(* AuthMiddleware looking the token up in the map itself, without the *)
(* expiry test of Get                                                 *)
AuthMiddleware_NoExpiry(store, cookie, t) ==
    LET c == GetSessionFromRequest(cookie)
    IN IF c.err \/ c.sessionID \notin DOMAIN store THEN [next |-> FALSE, session |-> NilSession]
       ELSE [next |-> TRUE, session |-> store[c.sessionID]]

(* Handler.AuthMiddleware: whether next.ServeHTTP runs, and with which session *)
AuthMiddleware(store, cookie, t) ==
    LET c == GetSessionFromRequest(cookie)
        g == Get(store, c.sessionID, t)
    IN IF c.err THEN [next |-> FALSE, session |-> NilSession]
       ELSE IF ~g.exists THEN [next |-> FALSE, session |-> NilSession]
       ELSE [next |-> TRUE, session |-> g.session]

(* The scan of isAdmin without the g.ID == groupID test *)
AdminScan_AnyGroup(groupIDs, groups, i, j) ==
    Len(groupIDs) > 0 /\ \E k \in 1..Len(groups) : groups[k].Name = "admins"

(* Handler.isAdmin: the two nested loops over session.GroupIDs and groups *)
RECURSIVE AdminScan(_, _, _, _)
AdminScan(groupIDs, groups, i, j) ==
    IF i > Len(groupIDs) THEN FALSE
    ELSE IF j > Len(groups) THEN AdminScan(groupIDs, groups, i + 1, 1)
    ELSE IF groups[j].ID = groupIDs[i] /\ groups[j].Name = "admins" THEN TRUE
    ELSE AdminScan(groupIDs, groups, i, j + 1)

(* isAdmin reading the user's rows of user_groups in place of session.GroupIDs *)
isAdmin_Live(session, d, ioErr) ==
    LET r == GetAllGroups(d, ioErr)
    IN IF r.err THEN FALSE
       ELSE AdminScan(SortedSeq({m[2] : m \in {x \in d.user_groups : x[1] = session.UserID}}),
                      r.groups, 1, 1)

isAdmin(session, d, ioErr) ==
    LET r == GetAllGroups(d, ioErr)
    IN IF r.err THEN FALSE
       ELSE AdminScan(session.GroupIDs, r.groups, 1, 1)

Denied(d) == Answer(d, 403, "Access denied")

(* Handler.FilesPage: the page lists the files of the groups of the session *)
FilesPage(session, d, ioErr) ==
    LET r == GetFilesByGroupIDs(d, session.GroupIDs, ioErr)
    IN IF r.err THEN [status |-> 500, msg |-> "Failed to load files", files |-> {}]
       ELSE [status |-> 200, msg |-> "files.html", files |-> r.files]

(* The loop of Handler.AdminPage over session.GroupIDs: both errors are *)
(* dropped, access is then false and groups is then empty               *)
hasAdminAccess(session, d, e1, e2) ==
    \E i \in 1..Len(session.GroupIDs) :
        /\ UserHasAccessToGroup(d, session.UserID, session.GroupIDs[i], e1).access
        /\ LET groups == GetAllGroups(d, e2).groups
           IN \E k \in 1..Len(groups) :
                 groups[k].ID = session.GroupIDs[i] /\ groups[k].Name = "admins"

(* Handler.AdminPage *)
AdminPage(session, d, e1, e2, e3, e4) ==
    IF ~hasAdminAccess(session, d, e1, e2)
    THEN Answer(d, 403, "Access denied - Admin privileges required")
    ELSE IF GetAllFiles(d, e3).err THEN Answer(d, 500, "Failed to load files")
    ELSE IF GetAllGroups(d, e4).err THEN Answer(d, 500, "Failed to load groups")
    ELSE Answer(d, 200, "admin.html")

(* Handler.AdminAddFile *)
AdminAddFile(session, d, filePath, groupIDStr, e1, e2) ==
    IF ~isAdmin(session, d, e1) THEN Denied(d)
    ELSE LET r == AddFile(d, filePath, Atoi(groupIDStr).n, e2)
         IN IF r.err THEN Answer(d, 303, "/admin/files?error=Failed+to+add+file")
            ELSE Answer(r.db, 303, "/admin/files?success=File+added+successfully")

(* Handler.AdminEditFile *)
AdminEditFile(session, d, idStr, filePath, groupIDStr, e1, e2) ==
    IF ~isAdmin(session, d, e1) THEN Denied(d)
    ELSE LET r == UpdateFile(d, Atoi(idStr).n, filePath, Atoi(groupIDStr).n, e2)
         IN IF r.err THEN Answer(d, 303, "/admin/files?error=Failed+to+update+file")
            ELSE Answer(r.db, 303, "/admin/files?success=File+updated+successfully")

(* Handler.AdminDeleteFile *)
AdminDeleteFile(session, d, idStr, e1, e2) ==
    IF ~isAdmin(session, d, e1) THEN Denied(d)
    ELSE LET r == DeleteFile(d, Atoi(idStr).n, e2)
         IN IF r.err THEN Answer(d, 303, "/admin/files?error=Failed+to+delete+file")
            ELSE Answer(r.db, 303, "/admin/files?success=File+deleted+successfully")

(* The loop of AdminAddUser and AdminEditUser over r.Form["group_ids"] *)
RECURSIVE AtoiAll(_)
AtoiAll(strs) ==
    IF strs = <<>> THEN <<>> ELSE <<Atoi(Head(strs)).n>> \o AtoiAll(Tail(strs))

(* Handler.AdminAddUser *)
AdminAddUser(session, d, username, password, groupIDStrs, e1, e2) ==
    IF ~isAdmin(session, d, e1) THEN Denied(d)
    ELSE LET groupIDs == AtoiAll(groupIDStrs)
         IN IF Len(groupIDs) = 0
            THEN Answer(d, 303, "/admin/users?error=User+must+belong+to+at+least+one+group")
            ELSE LET r == CreateUser(d, username, password, groupIDs, e2)
                 IN IF r.err THEN Answer(d, 303, "/admin/users?error=Failed+to+add+user")
                    ELSE Answer(r.db, 303, "/admin/users?success=User+added+successfully")

(* Handler.AdminEditUser *)
AdminEditUser(session, d, idStr, username, groupIDStrs, e1, e2) ==
    IF ~isAdmin(session, d, e1) THEN Denied(d)
    ELSE LET groupIDs == AtoiAll(groupIDStrs)
         IN IF Len(groupIDs) = 0
            THEN Answer(d, 303, "/admin/users?error=User+must+belong+to+at+least+one+group")
            ELSE LET r == UpdateUser(d, Atoi(idStr).n, username, groupIDs, e2)
                 IN IF r.err THEN Answer(d, 303, "/admin/users?error=Failed+to+update+user")
                    ELSE Answer(r.db, 303, "/admin/users?success=User+updated+successfully")

(* Handler.AdminChangeUserPassword *)
AdminChangeUserPassword(session, d, idStr, password, e1, e2) ==
    IF ~isAdmin(session, d, e1) THEN Denied(d)
    ELSE LET r == UpdateUserPassword(d, Atoi(idStr).n, password, e2)
         IN IF r.err THEN Answer(d, 303, "/admin/users?error=Failed+to+update+password")
            ELSE Answer(r.db, 303, "/admin/users?success=Password+updated+successfully")

(* AdminDeleteUser without the userID == session.UserID test *)
AdminDeleteUser_NoSelfTest(session, d, idStr, e1, e2) ==
    IF ~isAdmin(session, d, e1) THEN Denied(d)
    ELSE LET r == DeleteUser(d, Atoi(idStr).n, e2)
         IN IF r.err THEN Answer(d, 303, "/admin/users?error=Failed+to+delete+user")
            ELSE Answer(r.db, 303, "/admin/users?success=User+deleted+successfully")

(* Handler.AdminDeleteUser *)
AdminDeleteUser(session, d, idStr, e1, e2) ==
    IF ~isAdmin(session, d, e1) THEN Denied(d)
    ELSE LET userID == Atoi(idStr).n
         IN IF userID = session.UserID
            THEN Answer(d, 303, "/admin/users?error=Cannot+delete+your+own+account")
            ELSE LET r == DeleteUser(d, userID, e2)
                 IN IF r.err THEN Answer(d, 303, "/admin/users?error=Failed+to+delete+user")
                    ELSE Answer(r.db, 303, "/admin/users?success=User+deleted+successfully")

(* AdminAddGroup without the isAdmin test *)
AdminAddGroup_NoAdminTest(session, d, name, e1, e2) ==
    LET r == CreateGroup(d, name, e2)
    IN IF r.err THEN Answer(d, 303, "/admin/groups?error=Failed+to+add+group")
       ELSE Answer(r.db, 303, "/admin/groups?success=Group+added+successfully")

(* Handler.AdminAddGroup *)
AdminAddGroup(session, d, name, e1, e2) ==
    IF ~isAdmin(session, d, e1) THEN Denied(d)
    ELSE LET r == CreateGroup(d, name, e2)
         IN IF r.err THEN Answer(d, 303, "/admin/groups?error=Failed+to+add+group")
            ELSE Answer(r.db, 303, "/admin/groups?success=Group+added+successfully")

(* Handler.AdminEditGroup *)
AdminEditGroup(session, d, idStr, name, e1, e2) ==
    IF ~isAdmin(session, d, e1) THEN Denied(d)
    ELSE LET r == UpdateGroup(d, Atoi(idStr).n, name, e2)
         IN IF r.err THEN Answer(d, 303, "/admin/groups?error=Failed+to+update+group")
            ELSE Answer(r.db, 303, "/admin/groups?success=Group+updated+successfully")

(* Handler.AdminDeleteGroup: the error of GetGroupFileCount is dropped *)
AdminDeleteGroup(session, d, idStr, e1, e2, e3) ==
    IF ~isAdmin(session, d, e1) THEN Denied(d)
    ELSE LET groupID == Atoi(idStr).n
             fileCount == GetGroupFileCount(d, groupID, e2).count
         IN IF fileCount > 0
            THEN Answer(d, 303, "/admin/groups?error=Cannot+delete+group+with+files+assigned")
            ELSE LET r == DeleteGroup(d, groupID, e3)
                 IN IF r.err THEN Answer(d, 303, "/admin/groups?error=Failed+to+delete+group")
                    ELSE Answer(r.db, 303, "/admin/groups?success=Group+deleted+successfully")

----------------------------------------------------------------------------
(* Requests: what a client may send *)

Cookies == {NoCookie, Forged} \cup IssuedTokens
Credentials == {<<"admin", "admin">>, <<"user1", "password">>, <<"user2", "password">>,
                <<"user1", "admin">>, <<"nobody", "password">>}
FormIDs == {"1", "2", "x"}
FormGroupLists == {<<>>, <<"1">>, <<"2">>, <<"2", "2">>, <<"x">>}
FormUserNames == {"user1", "user9"}
FormGroupNames == {"admins", "staff"}
FormPath == "/etc/shadow"
FormPassword == "password"

Reply(op, cookie, served, status, msg, set) ==
    [op |-> op, cookie |-> cookie, served |-> served, status |-> status, msg |-> msg,
     set |-> set, at |-> now]

NoFile == [err |-> TRUE, ID |-> 0, FilePath |-> "", GroupID |-> 0]

Idle == [pc |-> "idle", op |-> "", session |-> NilSession, fileID |-> 0, file |-> NoFile,
         err |-> FALSE, access |-> FALSE, handle |-> FALSE, touched |-> FALSE,
         path |-> "", status |-> 0]

(* SessionStore.mu and the goroutines that call the store: two request *)
(* goroutines and the one NewSessionStore starts for cleanupExpired    *)
(* No call of DB.UpdateUser is running *)
NoTx == [pc |-> "idle", userID |-> 0, username |-> "", groupIDs |-> <<>>, i |-> 0,
         users |-> <<>>, user_groups |-> {}, err |-> FALSE]

Unlocked == [w |-> FALSE, r |-> 0]

Goroutines == {"g1", "g2"}
Sweeper == "sweep"

NoCall == [pc |-> "idle", op |-> "", token |-> "", s |-> NilSession, exists |-> FALSE]

Init ==
    /\ sessions = <<>>
    /\ issued = 0
    /\ removed = {}
    /\ now = 0
    /\ db = InitDB
    /\ resp = Reply("", NoCookie, FALSE, 0, "", "")
    /\ dl = Idle
    /\ nMut = 0
    /\ mu = Unlocked
    /\ gor = [g \in Goroutines \cup {Sweeper} |-> NoCall]
    /\ tx = NoTx

(* Login telling an unknown username from a wrong password in its message *)
Login_TellsUnknown(username, password, ioErr, randErr) ==
    /\ \E user \in {ValidateUser(db, username, password, ioErr)} :
          IF user.err
          THEN /\ resp' = Reply("Login", NoCookie, TRUE, 200,
                               IF \E u \in DOMAIN db.users : db.users[u].username = username
                               THEN "Invalid password" ELSE "Unknown user", "")
               /\ UNCHANGED <<sessions, issued>>
          ELSE IF randErr
          THEN /\ resp' = Reply("Login", NoCookie, TRUE, 500, "Failed to create session", "")
               /\ UNCHANGED <<sessions, issued>>
          ELSE /\ issued < MaxSessions
               /\ \E c \in {Create(sessions, issued, user.ID, user.Username,
                                   user.GroupIDs, now)} :
                     /\ sessions' = c.sessions
                     /\ resp' = Reply("Login", NoCookie, TRUE, 303, "/files", c.token)
               /\ issued' = issued + 1
    /\ UNCHANGED <<removed, now, db, dl, nMut, mu, gor, tx>>

(* Handler.Login (POST /login, outside the middleware) *)
Login(username, password, ioErr, randErr) ==
    /\ \E user \in {ValidateUser(db, username, password, ioErr)} :
          IF user.err
          THEN /\ resp' = Reply("Login", NoCookie, TRUE, 200, "Invalid credentials", "")
               /\ UNCHANGED <<sessions, issued>>
          ELSE IF randErr
          THEN /\ resp' = Reply("Login", NoCookie, TRUE, 500, "Failed to create session", "")
               /\ UNCHANGED <<sessions, issued>>
          ELSE /\ issued < MaxSessions
               /\ \E c \in {Create(sessions, issued, user.ID, user.Username,
                                   user.GroupIDs, now)} :
                     /\ sessions' = c.sessions
                     /\ resp' = Reply("Login", NoCookie, TRUE, 303, "/files", c.token)
               /\ issued' = issued + 1
    /\ UNCHANGED <<removed, now, db, dl, nMut, mu, gor, tx>>

(* Logout that clears the cookie and leaves the store alone *)
Logout_CookieOnly(cookie) ==
    /\ LET c == GetSessionFromRequest(cookie)
       IN IF ~c.err
          THEN /\ removed' = removed \cup {c.sessionID}
               /\ UNCHANGED sessions
          ELSE UNCHANGED <<sessions, removed>>
    /\ resp' = Reply("Logout", cookie, TRUE, 303, LoginEntry, ClearSessionCookie)
    /\ UNCHANGED <<issued, now, db, dl, nMut, mu, gor, tx>>

(* Handler.Logout (GET /logout, outside the middleware) *)
Logout(cookie) ==
    /\ LET c == GetSessionFromRequest(cookie)
       IN IF ~c.err
          THEN /\ sessions' = Delete(sessions, c.sessionID)
               /\ removed' = removed \cup {c.sessionID}
          ELSE UNCHANGED <<sessions, removed>>
    /\ resp' = Reply("Logout", cookie, TRUE, 303, LoginEntry, ClearSessionCookie)
    /\ UNCHANGED <<issued, now, db, dl, nMut, mu, gor, tx>>

(* SessionStore.cleanupExpired: one firing of the ticker *)
cleanupExpired ==
    /\ sessions' = SweepPass(sessions, now)
    /\ removed' = removed \cup Evicted(sessions, now)
    /\ UNCHANGED <<issued, now, db, resp, dl, nMut, mu, gor, tx>>

(* The clock *)
Tick ==
    /\ now + TickStep <= MaxTime
    /\ now' = now + TickStep
    /\ UNCHANGED <<sessions, issued, removed, db, resp, dl, nMut, mu, gor, tx>>

(* A request to a route of the group that main registers behind           *)
(* handler.AuthMiddleware: the middleware redirects to the login entry    *)
(* point and returns, whatever the route ...                              *)
Redirected(cookie) ==
    /\ ~AuthMiddleware(sessions, cookie, now).next
    /\ resp' = Reply("AuthMiddleware", cookie, FALSE, 303, LoginEntry, "")
    /\ UNCHANGED <<sessions, issued, removed, now, db, dl, nMut, mu, gor, tx>>

(* ... or calls next.ServeHTTP with the session it resolved; a is the *)
(* handler's answer                                                     *)
Served(op, cookie, a) ==
    /\ a.db # db => nMut < MaxMut
    /\ db' = a.db
    /\ nMut' = IF a.db # db THEN nMut + 1 ELSE nMut
    /\ resp' = Reply(op, cookie, TRUE, a.status, a.msg, a.set)
    /\ UNCHANGED <<sessions, issued, removed, now, dl, mu, gor, tx>>

(* The requests the middleware lets through now, each with its session *)
Admitted ==
    {r \in {[cookie |-> c, m |-> AuthMiddleware(sessions, c, now)] : c \in Cookies} : r.m.next}

(* In each admin handler the first database call is the one of isAdmin,  *)
(* made before the form is read: when it fails the form does not matter. *)
PostAdminFilesAdd ==
    \E r \in Admitted :
        \/ \E a \in {AdminAddFile(r.m.session, db, FormPath, "x", TRUE, FALSE)} : Served("AdminAddFile", r.cookie, a)
        \/ \E g \in FormIDs, e \in BOOLEAN :
              \E a \in {AdminAddFile(r.m.session, db, FormPath, g, FALSE, e)} : Served("AdminAddFile", r.cookie, a)

PostAdminFilesEdit ==
    \E r \in Admitted :
        \/ \E a \in {AdminEditFile(r.m.session, db, "x", FormPath, "x", TRUE, FALSE)} :
              Served("AdminEditFile", r.cookie, a)
        \/ \E id \in FormIDs, g \in FormIDs, e \in BOOLEAN :
              \E a \in {AdminEditFile(r.m.session, db, id, FormPath, g, FALSE, e)} :
                 Served("AdminEditFile", r.cookie, a)

PostAdminFilesDelete ==
    \E r \in Admitted :
        \/ \E a \in {AdminDeleteFile(r.m.session, db, "x", TRUE, FALSE)} : Served("AdminDeleteFile", r.cookie, a)
        \/ \E id \in FormIDs, e \in BOOLEAN :
              \E a \in {AdminDeleteFile(r.m.session, db, id, FALSE, e)} : Served("AdminDeleteFile", r.cookie, a)

PostAdminUsersAdd ==
    \E r \in Admitted :
        \/ \E a \in {AdminAddUser(r.m.session, db, "user9", FormPassword, <<>>, TRUE, FALSE)} :
              Served("AdminAddUser", r.cookie, a)
        \/ \E u \in FormUserNames, gs \in FormGroupLists, e \in BOOLEAN :
              \E a \in {AdminAddUser(r.m.session, db, u, FormPassword, gs, FALSE, e)} :
                 Served("AdminAddUser", r.cookie, a)

PostAdminUsersEdit ==
    \E r \in Admitted :
        \/ \E a \in {AdminEditUser(r.m.session, db, "x", "user9", <<>>, TRUE, FALSE)} :
              Served("AdminEditUser", r.cookie, a)
        \/ \E id \in FormIDs, u \in FormUserNames, gs \in FormGroupLists, e \in BOOLEAN :
              \E a \in {AdminEditUser(r.m.session, db, id, u, gs, FALSE, e)} :
                 Served("AdminEditUser", r.cookie, a)

(* The same form posted for user1 with the name kept: only the group *)
(* checkboxes differ                                                  *)
PostAdminUsersEditGroups ==
    \E r \in Admitted, gs \in FormGroupLists, e \in BOOLEAN :
        \E a \in {AdminEditUser(r.m.session, db, "2", "user1", gs, FALSE, e)} :
           Served("AdminEditUser", r.cookie, a)

PostAdminUsersPassword ==
    \E r \in Admitted :
        \/ \E a \in {AdminChangeUserPassword(r.m.session, db, "x", FormPassword, TRUE, FALSE)} :
              Served("AdminChangeUserPassword", r.cookie, a)
        \/ \E id \in FormIDs, e \in BOOLEAN :
              \E a \in {AdminChangeUserPassword(r.m.session, db, id, FormPassword, FALSE, e)} :
                 Served("AdminChangeUserPassword", r.cookie, a)

PostAdminUsersDelete ==
    \E r \in Admitted :
        \/ \E a \in {AdminDeleteUser(r.m.session, db, "x", TRUE, FALSE)} : Served("AdminDeleteUser", r.cookie, a)
        \/ \E id \in FormIDs, e \in BOOLEAN :
              \E a \in {AdminDeleteUser(r.m.session, db, id, FALSE, e)} : Served("AdminDeleteUser", r.cookie, a)

PostAdminGroupsAdd ==
    \E r \in Admitted :
        \/ \E a \in {AdminAddGroup(r.m.session, db, "staff", TRUE, FALSE)} : Served("AdminAddGroup", r.cookie, a)
        \/ \E n \in FormGroupNames, e \in BOOLEAN :
              \E a \in {AdminAddGroup(r.m.session, db, n, FALSE, e)} : Served("AdminAddGroup", r.cookie, a)

PostAdminGroupsEdit ==
    \E r \in Admitted :
        \/ \E a \in {AdminEditGroup(r.m.session, db, "x", "staff", TRUE, FALSE)} :
              Served("AdminEditGroup", r.cookie, a)
        \/ \E id \in FormIDs, n \in FormGroupNames, e \in BOOLEAN :
              \E a \in {AdminEditGroup(r.m.session, db, id, n, FALSE, e)} : Served("AdminEditGroup", r.cookie, a)

PostAdminGroupsDelete ==
    \E r \in Admitted :
        \/ \E a \in {AdminDeleteGroup(r.m.session, db, "x", TRUE, FALSE, FALSE)} :
              Served("AdminDeleteGroup", r.cookie, a)
        \/ \E id \in FormIDs, e2, e3 \in BOOLEAN :
              \E a \in {AdminDeleteGroup(r.m.session, db, id, FALSE, e2, e3)} :
                 Served("AdminDeleteGroup", r.cookie, a)

(* The random source is read only after the credentials are verified *)
PostLogin ==
    \E c \in Credentials :
        \/ Login(c[1], c[2], TRUE, FALSE)
        \/ \E e \in BOOLEAN : Login(c[1], c[2], FALSE, e)

GetLogout == \E c \in Cookies : Logout(c)

Unauthenticated == \E c \in Cookies : Redirected(c)

----------------------------------------------------------------------------
(* Handler.DownloadFile and Handler.ServeWorldFile, call by call.  dl is   *)
(* the request: where it is (pc), the session the middleware put in its    *)
(* context, the record GetFileByID returned, the verdict of the access     *)
(* check, whether it holds an open file handle, whether it has touched the *)
(* file system, and the status it answered with.                           *)

FetchOps == {"DownloadFile", "ServeWorldFile"}
QueryIDs == {"1", "2", "x"}

(* The handler returns: its locals are gone, a deferred Close has run *)
Finish(r, status) ==
    [r EXCEPT !.pc = "done", !.status = status, !.handle = FALSE,
              !.session = NilSession, !.fileID = 0, !.file = NoFile]

(* strconv.Atoi(r.URL.Query().Get("id")) *)
FetchBegin(op, session, idStr) ==
    LET r == [Idle EXCEPT !.op = op, !.session = session]
        id == Atoi(idStr)
    IN IF id.err THEN Finish(r, 400)
       ELSE [r EXCEPT !.pc = "lookup", !.fileID = id.n]

(* h.DB.GetFileByID(fileID) *)
FetchLookup(r, d, ioErr) ==
    LET file == GetFileByID(d, r.fileID, ioErr)
    IN IF file.err THEN Finish(r, 404)
       ELSE [r EXCEPT !.pc = "check", !.file = file]

(* The check without the return after the 403 of the access-denied branch *)
FetchCheck_NoReturn(r, d, ioErr) ==
    LET c == UserHasAccessToGroup(d, r.session.UserID, r.file.GroupID, ioErr)
        q == [r EXCEPT !.err = c.err, !.access = c.access]
    IN IF c.err THEN Finish(q, IF r.op = "DownloadFile" THEN 500 ELSE 403)
       ELSE IF ~c.access THEN [q EXCEPT !.pc = "open", !.status = 403]
       ELSE [q EXCEPT !.pc = "open"]

(* The check with ServeWorldFile testing err alone *)
FetchCheck_ErrOnly(r, d, ioErr) ==
    LET c == UserHasAccessToGroup(d, r.session.UserID, r.file.GroupID, ioErr)
        q == [r EXCEPT !.err = c.err, !.access = c.access]
    IN IF r.op = "DownloadFile"
       THEN IF c.err THEN Finish(q, 500)
            ELSE IF ~c.access THEN Finish(q, 403)
            ELSE [q EXCEPT !.pc = "open"]
       ELSE IF c.err THEN Finish(q, 403)
            ELSE [q EXCEPT !.pc = "open"]

(* h.DB.UserHasAccessToGroup(session.UserID, file.GroupID) and the two ifs *)
(* of DownloadFile, the one if of ServeWorldFile                          *)
FetchCheck(r, d, ioErr) ==
    LET c == UserHasAccessToGroup(d, r.session.UserID, r.file.GroupID, ioErr)
        q == [r EXCEPT !.err = c.err, !.access = c.access]
    IN IF r.op = "DownloadFile"
       THEN IF c.err THEN Finish(q, 500)
            ELSE IF ~c.access THEN Finish(q, 403)
            ELSE [q EXCEPT !.pc = "open"]
       ELSE IF c.err \/ ~c.access THEN Finish(q, 403)
            ELSE [q EXCEPT !.pc = "open"]

(* os.Open of a name made from the id of the query string *)
FetchOpen_QueryName(r, openErr) ==
    IF openErr THEN Finish([r EXCEPT !.touched = TRUE, !.path = Digits[r.fileID]], 500)
    ELSE [r EXCEPT !.pc = "stat", !.touched = TRUE, !.handle = TRUE,
                   !.path = Digits[r.fileID]]

(* os.Open(file.FilePath); defer f.Close().  path is the name given to *)
(* os.Open                                                              *)
FetchOpen(r, openErr) ==
    IF openErr THEN Finish([r EXCEPT !.touched = TRUE, !.path = r.file.FilePath], 500)
    ELSE [r EXCEPT !.pc = "stat", !.touched = TRUE, !.handle = TRUE,
                   !.path = r.file.FilePath]

(* Stat with f.Close() called after io.Copy instead of deferred: the *)
(* return of the error branch skips it                              *)
FetchStat_CloseAfterCopy(r, statErr) ==
    IF statErr THEN [Finish(r, 500) EXCEPT !.handle = r.handle]
    ELSE [r EXCEPT !.pc = "copy", !.status = 200]

(* f.Stat(), then the headers *)
FetchStat(r, statErr) ==
    IF statErr THEN Finish(r, 500)
    ELSE [r EXCEPT !.pc = "copy", !.status = 200]

(* io.Copy(w, f): to the end of the file or until the client is gone; the *)
(* deferred f.Close() runs when the handler returns                       *)
FetchCopy(r, disconnected) == Finish(r, 200)

GetFetch ==
    /\ dl.pc \in {"idle", "done"}
    /\ \E r \in Admitted, op \in FetchOps, id \in QueryIDs :
          dl' = FetchBegin(op, r.m.session, id)
    /\ UNCHANGED <<sessions, issued, removed, now, db, resp, nMut, mu, gor, tx>>

FetchStep ==
    /\ \/ dl.pc = "lookup" /\ \E e \in BOOLEAN : dl' = FetchLookup(dl, db, e)
       \/ dl.pc = "check" /\ \E e \in BOOLEAN : dl' = FetchCheck(dl, db, e)
       \/ dl.pc = "open" /\ \E e \in BOOLEAN : dl' = FetchOpen(dl, e)
       \/ dl.pc = "stat" /\ \E e \in BOOLEAN : dl' = FetchStat(dl, e)
       \/ dl.pc = "copy" /\ \E e \in BOOLEAN : dl' = FetchCopy(dl, e)
    /\ UNCHANGED <<sessions, issued, removed, now, db, resp, nMut, mu, gor, tx>>

----------------------------------------------------------------------------
(* The methods of SessionStore, statement by statement: a goroutine calls *)
(* a method, takes s.mu the way the method does, touches s.sessions,      *)
(* releases s.mu and returns.  Create reads the random source before it   *)
(* takes the lock; cleanupExpired runs its whole loop under one Lock.     *)

(* The lock call a method makes: "W" for s.mu.Lock, "R" for s.mu.RLock *)
LockMode_DeleteRLock(op) == IF op \in {"Get", "Delete"} THEN "R" ELSE "W"

LockMode(op) == IF op = "Get" THEN "R" ELSE "W"

(* sync.RWMutex: Lock waits for the writer and all readers to leave, *)
(* RLock waits for the writer to leave                               *)
CanLock(m, mode) == IF mode = "W" THEN ~m.w /\ m.r = 0 ELSE ~m.w

Locked(m, mode) == IF mode = "W" THEN [m EXCEPT !.w = TRUE] ELSE [m EXCEPT !.r = @ + 1]

Released(m, mode) == IF mode = "W" THEN [m EXCEPT !.w = FALSE] ELSE [m EXCEPT !.r = @ - 1]

(* The identities Login passes to Create: the users of the database *)
Identities ==
    {[UserID |-> u.ID, Username |-> u.Username, GroupIDs |-> u.GroupIDs, Expires |-> 0] :
        u \in {x \in {ValidateUser(db, c[1], c[2], FALSE) : c \in Credentials} : ~x.err}}

(* The tokens a caller can hold: those a Create has returned *)
ReturnedTokens ==
    IssuedTokens \ {gor[g].token : g \in {h \in Goroutines : gor[h].op = "Create" /\ gor[h].pc # "idle"}}

(* A request goroutine enters a method of the store *)
Call(g) ==
    /\ g \in Goroutines
    /\ gor[g].pc = "idle"
    /\ \/ /\ issued < MaxSessions
          /\ \E id \in Identities :
                gor' = [gor EXCEPT ![g] = [NoCall EXCEPT !.pc = "rand", !.op = "Create", !.s = id]]
       \/ \E op \in {"Get", "Delete"}, token \in ReturnedTokens :
             gor' = [gor EXCEPT ![g] = [NoCall EXCEPT !.pc = "lock", !.op = op, !.token = token]]
    /\ UNCHANGED <<sessions, issued, removed, now, db, resp, dl, nMut, mu, tx>>

(* The ticker of cleanupExpired fires *)
TickerFires ==
    /\ gor[Sweeper].pc = "idle"
    /\ gor' = [gor EXCEPT ![Sweeper] = [NoCall EXCEPT !.pc = "lock", !.op = "cleanupExpired"]]
    /\ UNCHANGED <<sessions, issued, removed, now, db, resp, dl, nMut, mu, tx>>

(* Create: rand.Read(token) and the base64 encoding, outside the lock *)
RandRead(g, randErr) ==
    /\ gor[g].pc = "rand"
    /\ IF randErr
       THEN /\ gor' = [gor EXCEPT ![g] = NoCall]
            /\ UNCHANGED issued
       ELSE /\ issued < MaxSessions
            /\ gor' = [gor EXCEPT ![g].pc = "lock", ![g].token = TokenNames[issued + 1]]
            /\ issued' = issued + 1
    /\ UNCHANGED <<sessions, removed, now, db, resp, dl, nMut, mu, tx>>

(* s.mu.Lock() / s.mu.RLock() returns *)
MuLock(g) ==
    /\ gor[g].pc = "lock"
    /\ CanLock(mu, LockMode(gor[g].op))
    /\ mu' = Locked(mu, LockMode(gor[g].op))
    /\ gor' = [gor EXCEPT ![g].pc = "map"]
    /\ UNCHANGED <<sessions, issued, removed, now, db, resp, dl, nMut, tx>>

(* The statements between the lock call and the unlock call *)
MapAccess(g) ==
    /\ gor[g].pc = "map"
    /\ LET c == gor[g]
       IN CASE c.op = "Create" ->
                 /\ sessions' = Extend(sessions, c.token, [c.s EXCEPT !.Expires = now + TTL])
                 /\ gor' = [gor EXCEPT ![g].pc = "unlock"]
                 /\ UNCHANGED removed
            [] c.op = "Get" ->
                 /\ gor' = [gor EXCEPT ![g].pc = "unlock",
                                       ![g].exists = Get(sessions, c.token, now).exists]
                 /\ UNCHANGED <<sessions, removed>>
            [] c.op = "Delete" ->
                 /\ sessions' = Delete(sessions, c.token)
                 /\ removed' = removed \cup {c.token}
                 /\ gor' = [gor EXCEPT ![g].pc = "unlock"]
            [] c.op = "cleanupExpired" ->
                 /\ sessions' = SweepPass(sessions, now)
                 /\ removed' = removed \cup Evicted(sessions, now)
                 /\ gor' = [gor EXCEPT ![g].pc = "unlock"]
    /\ UNCHANGED <<issued, now, db, resp, dl, nMut, mu, tx>>

(* s.mu.Unlock() / s.mu.RUnlock(), and the method returns *)
MuUnlock(g) ==
    /\ gor[g].pc = "unlock"
    /\ mu' = Released(mu, LockMode(gor[g].op))
    /\ gor' = [gor EXCEPT ![g].pc = "idle"]
    /\ UNCHANGED <<sessions, issued, removed, now, db, resp, dl, nMut, tx>>

StoreCall == \E g \in Goroutines : Call(g)

StoreStep ==
    \E g \in Goroutines \cup {Sweeper} :
        \/ \E e \in BOOLEAN : RandRead(g, e)
        \/ MuLock(g)
        \/ MapAccess(g)
        \/ MuUnlock(g)

NextStore ==
    \/ StoreCall
    \/ TickerFires
    \/ StoreStep
    \/ Tick

SpecStore == Init /\ [][NextStore]_vars

----------------------------------------------------------------------------
(* Sessions: login, logout, expiry, the sweep and the middleware *)
----------------------------------------------------------------------------
(* DB.UpdateUser, statement by statement.  tx is the call: where it is    *)
(* (pc), its arguments, the index of the loop over groupIDs, and the rows *)
(* of users and user_groups as the open transaction sees them.  db is the *)
(* committed database, the one every other connection reads.              *)

UserIDs == {2, 9}
UserNames == {"user1", "user2", "user9"}
GroupIDLists == {<<>>, <<1>>, <<1, 2>>, <<2, 2>>, <<7>>}

(* tx.Rollback discarding what the transaction wrote, and one that keeps it *)
Rollback_KeepsWork(d, t) == [d EXCEPT !.users = t.users, !.user_groups = t.user_groups]

(* defer tx.Rollback(): the committed database is the one before Begin *)
Rollback(d, t) == d

(* The call returns err: the deferred Rollback runs *)
UpdateUserFails ==
    /\ db' = Rollback(db, tx)
    /\ tx' = [tx EXCEPT !.pc = "returned", !.err = TRUE]

(* tx, err := db.Begin() *)
UpdateUserBegin(userID, username, groupIDs, ioErr) ==
    /\ tx.pc = "idle"
    /\ nMut < MaxMut
    /\ IF ioErr
       THEN tx' = [NoTx EXCEPT !.pc = "returned", !.userID = userID, !.username = username,
                               !.groupIDs = groupIDs, !.err = TRUE]
       ELSE tx' = [NoTx EXCEPT !.pc = "update", !.userID = userID, !.username = username,
                               !.groupIDs = groupIDs, !.users = db.users,
                               !.user_groups = db.user_groups]
    /\ UNCHANGED <<sessions, issued, removed, now, db, resp, dl, nMut, mu, gor>>

(* UPDATE users SET username = ? WHERE id = ?: username is UNIQUE *)
UpdateUserExecUpdate(ioErr) ==
    /\ tx.pc = "update"
    /\ IF ioErr \/ (tx.userID \in DOMAIN tx.users
                    /\ \E u \in DOMAIN tx.users \ {tx.userID} :
                          tx.users[u].username = tx.username)
       THEN UpdateUserFails
       ELSE /\ tx' = [tx EXCEPT !.pc = "delete",
                                !.users = IF tx.userID \in DOMAIN tx.users
                                          THEN [tx.users EXCEPT ![tx.userID].username = tx.username]
                                          ELSE tx.users]
            /\ UNCHANGED db
    /\ UNCHANGED <<sessions, issued, removed, now, resp, dl, nMut, mu, gor>>

(* DELETE FROM user_groups WHERE user_id = ? *)
UpdateUserExecDelete(ioErr) ==
    /\ tx.pc = "delete"
    /\ IF ioErr
       THEN UpdateUserFails
       ELSE /\ tx' = [tx EXCEPT !.pc = IF tx.groupIDs = <<>> THEN "commit" ELSE "insert",
                                !.i = 1,
                                !.user_groups = {m \in tx.user_groups : m[1] # tx.userID}]
            /\ UNCHANGED db
    /\ UNCHANGED <<sessions, issued, removed, now, resp, dl, nMut, mu, gor>>

(* One turn of the loop: INSERT INTO user_groups (user_id, group_id); the *)
(* pair is the primary key                                               *)
UpdateUserExecInsert(ioErr) ==
    /\ tx.pc = "insert"
    /\ LET row == <<tx.userID, tx.groupIDs[tx.i]>>
       IN IF ioErr \/ row \in tx.user_groups
                   \/ (ForeignKeys /\ (row[1] \notin DOMAIN tx.users
                                       \/ row[2] \notin DOMAIN db.groups))
          THEN UpdateUserFails
          ELSE /\ tx' = [tx EXCEPT !.pc = IF tx.i = Len(tx.groupIDs) THEN "commit" ELSE "insert",
                                   !.i = tx.i + 1,
                                   !.user_groups = tx.user_groups \cup {row}]
               /\ UNCHANGED db
    /\ UNCHANGED <<sessions, issued, removed, now, resp, dl, nMut, mu, gor>>

(* return tx.Commit() *)
UpdateUserCommit(ioErr) ==
    /\ tx.pc = "commit"
    /\ IF ioErr
       THEN UpdateUserFails /\ UNCHANGED nMut
       ELSE /\ db' = [db EXCEPT !.users = tx.users, !.user_groups = tx.user_groups]
            /\ tx' = [tx EXCEPT !.pc = "returned"]
            /\ nMut' = IF db' # db THEN nMut + 1 ELSE nMut
    /\ UNCHANGED <<sessions, issued, removed, now, resp, dl, mu, gor>>

(* The caller has the result *)
UpdateUserReturn ==
    /\ tx.pc = "returned"
    /\ tx' = NoTx
    /\ UNCHANGED <<sessions, issued, removed, now, db, resp, dl, nMut, mu, gor>>

UpdateUserCall ==
    \E u \in UserIDs, n \in UserNames, gs \in GroupIDLists, e \in BOOLEAN :
        UpdateUserBegin(u, n, gs, e)

UpdateUserStep ==
    \E e \in BOOLEAN :
        \/ UpdateUserExecUpdate(e)
        \/ UpdateUserExecDelete(e)
        \/ UpdateUserExecInsert(e)
        \/ UpdateUserCommit(e)

(* One call of UpdateUser at a time, while other requests read the database *)
NextTx ==
    \/ UpdateUserCall
    \/ UpdateUserStep
    \/ UpdateUserReturn
    \/ PostLogin

SpecTx == Init /\ [][NextTx]_vars

----------------------------------------------------------------------------
NextAuth ==
    \/ PostLogin
    \/ GetLogout
    \/ cleanupExpired
    \/ Tick
    \/ Unauthenticated
    \/ PostAdminFilesDelete

SpecAuth == Init /\ [][NextAuth]_vars

(* NewSessionStore starts the goroutine of cleanupExpired: its ticker keeps *)
(* firing and each pass gets the lock in the end                            *)
SpecAuthFair == SpecAuth /\ WF_vars(cleanupExpired)

(* The session map while users are administered *)
NextFrame ==
    \/ PostLogin
    \/ GetLogout
    \/ cleanupExpired
    \/ Tick
    \/ Unauthenticated
    \/ PostAdminUsersEditGroups
    \/ PostAdminUsersPassword
    \/ PostAdminUsersDelete

SpecFrame == Init /\ [][NextFrame]_vars

(* File serving while an admin edits users *)
NextFetch ==
    \/ PostLogin
    \/ PostAdminUsersEdit
    \/ GetFetch
    \/ FetchStep

SpecFetch == Init /\ [][NextFetch]_vars

(* A handler goroutine keeps running: each call it makes returns, and    *)
(* io.Copy ends at the end of the file or when the client is gone        *)
SpecFetchFair == SpecFetch /\ WF_vars(FetchStep)

(* File serving while an admin adds and edits file records *)
NextPath ==
    \/ PostLogin
    \/ PostAdminFilesAdd
    \/ PostAdminFilesEdit
    \/ GetFetch
    \/ FetchStep

SpecPath == Init /\ [][NextPath]_vars

(* The administration of users, groups and files *)
NextAdmin ==
    \/ PostLogin
    \/ PostAdminFilesAdd
    \/ PostAdminFilesEdit
    \/ PostAdminFilesDelete
    \/ PostAdminUsersAdd
    \/ PostAdminUsersEdit
    \/ PostAdminUsersPassword
    \/ PostAdminUsersDelete
    \/ PostAdminGroupsAdd
    \/ PostAdminGroupsEdit
    \/ PostAdminGroupsDelete

SpecAdmin == Init /\ [][NextAdmin]_vars

----------------------------------------------------------------------------
(* Properties *)

AdminOps == {"AdminAddFile", "AdminEditFile", "AdminDeleteFile", "AdminAddUser",
             "AdminEditUser", "AdminChangeUserPassword", "AdminDeleteUser",
             "AdminAddGroup", "AdminEditGroup", "AdminDeleteGroup"}

(* The step is a request to a route behind the middleware, answered by resp' *)
ProtectedRequest ==
    /\ resp'.op \notin {"", "Login", "Logout"}
    /\ resp' # resp \/ db' # db

(* The step is a request to an admin mutation endpoint that the middleware *)
(* let through, answered by resp'                                          *)
AdminRequest == resp'.op \in AdminOps /\ resp'.served

(* Some group id of the set is the id of a row of groups named "admins" *)
HoldsAdmins(groupIDs, d) ==
    \E g \in groupIDs : g \in DOMAIN d.groups /\ d.groups[g] = "admins"

(* The group ids a user has in user_groups now *)
LiveGroups(userID, d) == {m[2] : m \in {x \in d.user_groups : x[1] = userID}}

(* C1: a stored session (neither deleted nor swept) with expiry E is returned *)
(* by Get at time t when t is strictly before E and is absent when t is at or *)
(* after E, t = E included.                                                   *)
C1_AbsentAtExpiry ==
    \A token \in DOMAIN sessions :
        Get(sessions, token, now).exists <=> now < sessions[token].Expires

(* C2: a request to a route behind AuthMiddleware reaches its handler only    *)
(* with a cookie whose token is stored and unexpired at that time; without a  *)
(* cookie, with an unknown, a logged-out or an expired token it is answered   *)
(* by a redirect to the login entry point and no handler runs.                *)
C2_OnlyLiveSessionsServed ==
    [][ProtectedRequest =>
          LET c == resp'.cookie
              live == c \in DOMAIN sessions /\ ~(sessions[c].Expires < now)
          IN /\ resp'.served <=> live
             /\ resp'.served => c \in IssuedTokens /\ c \notin removed
             /\ ~resp'.served => /\ resp'.status = 303
                                 /\ resp'.msg = LoginEntry
                                 /\ db' = db
                                 /\ dl' = dl]_vars

C2_ExpiredRedirected ==
    /\ resp.op = "AuthMiddleware"
    /\ resp.status = 303
    /\ resp.cookie \in DOMAIN sessions
    /\ sessions[resp.cookie].Expires < resp.at

(* C3: when a session fetches a file of group g and the membership query does *)
(* not fail, access is granted iff g is in the group ids the session captured *)
(* at login, whatever has happened to the user's memberships since.           *)
C3_AccessBySnapshot ==
    [][dl.pc = "check" /\ dl'.pc # "check" /\ ~dl'.err =>
          (dl'.pc = "open" <=> dl.file.GroupID \in Range(dl.session.GroupIDs))]_vars

(* C4: in DownloadFile and ServeWorldFile the file is opened, stat'ed and     *)
(* streamed only after the access check of the resolved record has returned   *)
(* true: a request whose check was false or failed never touches the path.    *)
C4_CheckBeforeOpen ==
    [][/\ dl.pc = "check" /\ dl'.pc = "open" =>
              <<dl.session.UserID, dl.file.GroupID>> \in db.user_groups
       /\ dl' # dl /\ dl'.pc = "open" => dl.pc = "check"
       /\ dl' # dl /\ (dl'.touched \/ dl'.handle \/ dl'.pc \in {"stat", "copy"}
                                    \/ dl'.status = 200)
              => dl.pc \in {"open", "stat", "copy"}
       /\ dl.pc = "check" /\ dl'.pc = "done" =>
              ~dl'.touched /\ ~dl'.handle /\ dl'.status \in {403, 500}]_vars

C4_DeniedUntouched ==
    /\ dl.pc = "done"
    /\ dl.op = "ServeWorldFile"
    /\ dl.status = 403
    /\ ~dl.access /\ ~dl.err
    /\ ~dl.touched

(* C5: once Delete(token) or the sweep's eviction of token has completed,     *)
(* every later Get(token) is absent, whether or not the session had expired   *)
(* before it was removed.                                                     *)
C5_RemovedStaysAbsent ==
    \A token \in removed :
        /\ ~Get(sessions, token, now).exists
        /\ ~AuthMiddleware(sessions, token, now).next

C5_LoggedOutRedirected ==
    /\ resp.op = "AuthMiddleware"
    /\ resp.cookie \in removed \cap IssuedTokens
    /\ resp.at < TTL

(* C6: an admin mutation endpoint called by a session that holds no group     *)
(* named "admins" answers 403, and a request answered 403 leaves users,       *)
(* groups, memberships and files as they were.                                *)
C6_NonAdminRefused ==
    [][AdminRequest =>
          /\ ~HoldsAdmins(Range(sessions[resp'.cookie].GroupIDs), db) => resp'.status = 403
          /\ resp'.status = 403 => db' = db]_vars

C6_NonAdminGot403 ==
    /\ resp.op \in AdminOps
    /\ resp.status = 403
    /\ resp.cookie \in DOMAIN sessions
    /\ sessions[resp.cookie].Username = "user1"
    /\ db = InitDB

(* C7: isAdmin(session) is true iff some group id of the session is, in the   *)
(* groups table as read now, the id of a group named "admins"; a group id     *)
(* missing from the table or a failed read gives false.                       *)
C7_isAdminByName ==
    \A token \in DOMAIN sessions :
        /\ isAdmin(sessions[token], db, FALSE)
              = HoldsAdmins(Range(sessions[token].GroupIDs), db)
        /\ isAdmin(sessions[token], db, TRUE) = FALSE

C7_GroupIdMissing ==
    \E token \in DOMAIN sessions :
        /\ Len(sessions[token].GroupIDs) = 2
        /\ \E g \in Range(sessions[token].GroupIDs) : g \notin DOMAIN db.groups
        /\ ~isAdmin(sessions[token], db, FALSE)

(* C8 as stated: at any moment a session passes the admin check iff its user  *)
(* is, in user_groups at that moment, a member of the group named "admins".   *)
C8_LiveMembership ==
    \A token \in DOMAIN sessions :
        isAdmin(sessions[token], db, FALSE)
            <=> HoldsAdmins(LiveGroups(sessions[token].UserID, db), db)

(* C8 amended: a session is let past the admin check of every admin mutation *)
(* endpoint iff the group ids captured at login contain the id of the group   *)
(* named "admins" now (the groups table being readable), whatever the user's  *)
(* rows of user_groups are now.                                               *)
C8_LoginSnapshot ==
    \A token \in DOMAIN sessions :
        LET s == sessions[token]
            answers ==
                {AdminAddFile(s, db, FormPath, "1", FALSE, FALSE),
                 AdminEditFile(s, db, "1", FormPath, "1", FALSE, FALSE),
                 AdminDeleteFile(s, db, "1", FALSE, FALSE),
                 AdminAddUser(s, db, "user9", FormPassword, <<"1">>, FALSE, FALSE),
                 AdminEditUser(s, db, "1", "user9", <<"1">>, FALSE, FALSE),
                 AdminChangeUserPassword(s, db, "1", FormPassword, FALSE, FALSE),
                 AdminDeleteUser(s, db, "1", FALSE, FALSE),
                 AdminAddGroup(s, db, "staff", FALSE, FALSE),
                 AdminEditGroup(s, db, "1", "staff", FALSE, FALSE),
                 AdminDeleteGroup(s, db, "1", FALSE, FALSE, FALSE)}
        IN IF HoldsAdmins(Range(s.GroupIDs), db)
           THEN \A a \in answers : a.status # 403
           ELSE \A a \in answers : a.status = 403

C8_StaleAdminPasses ==
    /\ resp.op = "AdminAddUser"
    /\ resp.served
    /\ resp.msg = "/admin/users?error=User+must+belong+to+at+least+one+group"
    /\ ~HoldsAdmins(LiveGroups(sessions[resp.cookie].UserID, db), db)

(* C9: AdminDeleteGroup deletes a group only when no file references it:      *)
(* while a file has that owning group the request is refused and the groups   *)
(* table is unchanged.                                                        *)
C9_ReferencedGroupKept ==
    [][\A g \in DOMAIN db.groups :
          (\E f \in DOMAIN db.files : db.files[f].group_id = g) =>
              g \in DOMAIN db'.groups]_vars

(* C10: AdminDeleteUser by an admin session with the session's own user id is *)
(* refused with a redirect that says so; the user row and its memberships are *)
(* still there afterwards.                                                    *)
C10_OwnAccountKept ==
    [][AdminRequest /\ resp'.op = "AdminDeleteUser" =>
          LET s == sessions[resp'.cookie]
              u == s.UserID
          IN /\ u \in DOMAIN db.users => u \in DOMAIN db'.users /\ db'.users[u] = db.users[u]
             /\ {m \in db'.user_groups : m[1] = u} = {m \in db.user_groups : m[1] = u}
             /\ \A e \in BOOLEAN :
                    LET a == AdminDeleteUser(s, db, Digits[u], FALSE, e)
                    IN /\ a.db = db
                       /\ HoldsAdmins(Range(s.GroupIDs), db) =>
                              /\ a.status = 303
                              /\ a.msg = "/admin/users?error=Cannot+delete+your+own+account"]_vars

C10_OwnDeleteRefused ==
    /\ resp.op = "AdminDeleteUser"
    /\ resp.msg = "/admin/users?error=Cannot+delete+your+own+account"
    /\ sessions[resp.cookie].UserID \in DOMAIN db.users

(* C11: DownloadFile answers by the first failing gate, in this order: 400   *)
(* when the id is not a number, 404 when no file record has that id, 403    *)
(* when the session is not authorized for the record's group, 500 on a      *)
(* storage or backing-file error (store query, open, stat), else 200.       *)
C11_FirstFailingGate ==
    [][dl' # dl /\ dl'.op = "DownloadFile" =>
          /\ dl.pc \in {"idle", "done"} =>
                \/ dl'.pc = "done" /\ dl'.status = 400
                \/ dl'.pc = "lookup" /\ dl'.fileID \in 1..Len(Digits)
          /\ dl.pc = "lookup" =>
                /\ dl.fileID \notin DOMAIN db.files => dl'.pc = "done" /\ dl'.status = 404
                /\ dl.fileID \in DOMAIN db.files =>
                      \/ dl'.pc = "check" /\ dl'.file.ID = dl.fileID
                      \/ dl'.pc = "done" /\ dl'.status = 500
          /\ dl.pc = "check" =>
                \/ dl'.pc = "done" /\ dl'.status = 500 /\ dl'.err
                \/ /\ dl'.pc = "done" /\ dl'.status = 403 /\ ~dl'.err
                   /\ <<dl.session.UserID, dl.file.GroupID>> \notin db.user_groups
                \/ /\ dl'.pc = "open" /\ ~dl'.err
                   /\ <<dl.session.UserID, dl.file.GroupID>> \in db.user_groups
          /\ dl.pc \in {"open", "stat"} =>
                \/ dl'.pc = "done" /\ dl'.status = 500
                \/ dl'.pc = IF dl.pc = "open" THEN "stat" ELSE "copy"
          /\ dl.pc = "copy" => dl'.pc = "done" /\ dl'.status = 200]_vars

(* The state of a fetch request in the request state machine *)
FetchState(r) ==
    CASE r.pc = "idle" -> "Unauthenticated"
      [] r.pc \in {"lookup", "check"} -> "Authenticated"
      [] r.pc \in {"open", "stat"} -> "Authorized"
      [] r.pc = "copy" -> "Streaming"
      [] r.pc = "done" /\ r.status = 200 -> "Complete"
      [] r.pc = "done" /\ r.status = 403 -> "Denied"
      [] r.pc = "done" /\ r.status = 404 -> "NotFound"
      [] r.pc = "done" /\ r.status = 500 -> "Unreadable"
      [] r.pc = "done" /\ r.status = 400 -> "BadRequest"
      [] OTHER -> "None"

(* A step of the request dl: it ends in one of the terminal states, a    *)
(* request that has ended moves no more (dl then changes only by the     *)
(* start of the next request), and Streaming follows a positive verdict  *)
FetchLifecycle(terminals) ==
    dl' # dl =>
        /\ dl'.pc = "done" => FetchState(dl') \in terminals
        /\ dl.pc = "done" =>
              \E r \in Admitted, op \in FetchOps, id \in QueryIDs :
                  dl' = FetchBegin(op, r.m.session, id)
        /\ FetchState(dl') = "Streaming" =>
              FetchState(dl) = "Authorized" /\ dl.access /\ ~dl.err
        /\ FetchState(dl') = "Authorized" /\ FetchState(dl) # "Authorized" =>
              FetchState(dl) = "Authenticated" /\ dl'.access /\ ~dl'.err /\ dl'.status = 0

(* C12 as stated: every fetch request ends in exactly one of Complete,   *)
(* Denied, NotFound, Unreadable and stays there; Streaming is reached    *)
(* only from Authenticated with a positive authorization verdict.        *)
C12_FourTerminals ==
    [][FetchLifecycle({"Complete", "Denied", "NotFound", "Unreadable"})]_vars

(* C12 amended: every fetch request ends in exactly one of Complete,     *)
(* Denied, NotFound, Unreadable or, for a malformed id, BadRequest, and  *)
(* stays there; Streaming is reached only from Authenticated with a      *)
(* positive authorization verdict, never after a terminal state.         *)
C12_FiveTerminals ==
    /\ [][FetchLifecycle({"Complete", "Denied", "NotFound", "Unreadable", "BadRequest"})]_vars
    /\ (dl.pc \notin {"idle", "done"}) ~> (dl.pc = "done")

C12_BadRequestEnded ==
    FetchState(dl) = "BadRequest" /\ dl.op = "DownloadFile" /\ ~dl.touched

(* The username of the credentials is the name of no user *)
UnknownUser(c, d) == ~\E u \in DOMAIN d.users : d.users[u].username = c[1]

(* The username is a user's, the password is not that user's *)
WrongPassword(c, d) ==
    \E u \in DOMAIN d.users :
        /\ d.users[u].username = c[1]
        /\ d.users[u].password_hash # GenerateFromPassword(c[2])

(* C13: Login gives the same observable outcome (the login page with     *)
(* "Invalid credentials", no cookie, no session) for an unknown username *)
(* and for a known username with a wrong password.                       *)
C13_SameInvalidOutcome ==
    [][\A c \in Credentials, e \in BOOLEAN :
          (UnknownUser(c, db) \/ WrongPassword(c, db)) /\ Login(c[1], c[2], FALSE, e) =>
              /\ resp' = Reply("Login", NoCookie, TRUE, 200, "Invalid credentials", "")
              /\ sessions' = sessions
              /\ issued' = issued]_vars

C13_InvalidAnswered ==
    /\ resp.op = "Login"
    /\ resp.msg = "Invalid credentials"
    /\ resp.set = ""
    /\ \E c \in Credentials : UnknownUser(c, db)
    /\ \E c \in Credentials : WrongPassword(c, db)

(* The goroutine is between its lock call and its unlock call *)
InCriticalSection(g) == gor[g].pc \in {"map", "unlock"}

(* The method the goroutine is in writes the map *)
Writer(g) == gor[g].op \in {"Create", "Delete", "cleanupExpired"}

(* C14: a write to the session map (Create's insert, Delete's removal,   *)
(* the eviction pass of cleanupExpired) excludes every other read and    *)
(* write of the map: no writer is in its critical section while another  *)
(* writer or a Get is in its own; several Gets may be inside together.   *)
C14_WritersExclusive ==
    \A g, h \in DOMAIN gor :
        g # h /\ InCriticalSection(g) /\ Writer(g) => ~InCriticalSection(h)

C14_TwoReadersInside ==
    /\ InCriticalSection("g1") /\ gor["g1"].op = "Get"
    /\ InCriticalSection("g2") /\ gor["g2"].op = "Get"
    /\ gor[Sweeper].pc = "lock"

(* C15: each pass of the sweep removes every session whose expiry has    *)
(* passed at the time of the pass and no other: right after the pass the *)
(* map holds exactly the sessions that were present and unexpired.       *)
C15_SweepExact ==
    [][gor[Sweeper].pc = "map" /\ gor'[Sweeper].pc = "unlock" =>
          /\ DOMAIN sessions' = {id \in DOMAIN sessions : ~(sessions[id].Expires < now)}
          /\ \A id \in DOMAIN sessions' : sessions'[id] = sessions[id]]_vars

C15_SweptOneKeptOne ==
    /\ gor[Sweeper].pc = "unlock"
    /\ \E kept \in DOMAIN sessions : ~(sessions[kept].Expires < now)
    /\ \E gone \in IssuedTokens \ DOMAIN sessions :
          /\ gone \in removed
          /\ \A g \in Goroutines : ~(gor[g].op = "Delete" /\ gor[g].token = gone)

(* Every token Create can generate within the bound *)
AllTokens == {TokenNames[i] : i \in 1..MaxSessions}

(* C16: with the sweep running fairly, a session that is in the map when *)
(* its expiry has passed is eventually removed from the map: no expired  *)
(* session stays in the map forever.                                     *)
C16_ExpiredEventuallyGone ==
    \A token \in AllTokens :
        (token \in DOMAIN sessions /\ sessions[token].Expires < now)
            ~> (token \notin DOMAIN sessions)

C16_SweptAfterLogin ==
    /\ resp.op = "Login"
    /\ resp.set \in removed
    /\ resp.set \notin DOMAIN sessions
    /\ resp.at + TTL < now

C18_FixedExpiry ==
    [][/\ \A token \in DOMAIN sessions' \ DOMAIN sessions :
              sessions'[token].Expires = now + TTL
       /\ \A token \in DOMAIN sessions' \cap DOMAIN sessions :
              sessions'[token].Expires = sessions[token].Expires
       /\ ProtectedRequest /\ resp'.served =>
              /\ resp'.cookie \in DOMAIN sessions
              /\ now < sessions[resp'.cookie].Expires]_vars

(* C19: the session map changes only through Create (adds exactly the   *)
(* one new entry), Delete (removes at most the named entry) and the      *)
(* sweep (removes only expired entries); Get leaves it unchanged even on *)
(* an expired entry, and no handler other than Login and Logout, the     *)
(* admin operations on users included, adds, removes or alters a session.*)
C19_MapFrame ==
    [][sessions' # sessions =>
          \/ /\ resp' # resp /\ resp'.op = "Login"
             /\ resp'.set \notin DOMAIN sessions
             /\ DOMAIN sessions' = DOMAIN sessions \cup {resp'.set}
             /\ \A token \in DOMAIN sessions : sessions'[token] = sessions[token]
          \/ /\ resp' # resp /\ resp'.op = "Logout"
             /\ DOMAIN sessions' = DOMAIN sessions \ {resp'.cookie}
             /\ \A token \in DOMAIN sessions' : sessions'[token] = sessions[token]
          \/ /\ resp' = resp /\ db' = db
             /\ DOMAIN sessions' \subseteq DOMAIN sessions
             /\ \A token \in DOMAIN sessions \ DOMAIN sessions' : sessions[token].Expires < now
             /\ \A token \in DOMAIN sessions' : sessions'[token] = sessions[token]]_vars

C19_DeletedUserSessionKept ==
    /\ resp.op = "AdminDeleteUser"
    /\ resp.msg = "/admin/users?success=User+deleted+successfully"
    /\ \E token \in DOMAIN sessions : sessions[token].UserID \notin DOMAIN db.users

(* C20: SessionStore.Delete is idempotent and total: on a token that is  *)
(* absent (never created, already deleted or already swept) it leaves    *)
(* the map unchanged and nothing fails, twice on the same token leaves   *)
(* the same map as once, and all other sessions are untouched.           *)
C20_DeleteIdempotent ==
    /\ [](\A token \in AllTokens \cup {Forged} :
             LET once == Delete(sessions, token)
             IN /\ Delete(once, token) = once
                /\ token \notin DOMAIN sessions => once = sessions
                /\ DOMAIN once = DOMAIN sessions \ {token}
                /\ \A other \in DOMAIN once : once[other] = sessions[other])
    /\ [][resp' # resp /\ resp'.op = "Logout" =>
             /\ resp'.status = 303 /\ resp'.msg = LoginEntry
             /\ resp'.cookie \notin DOMAIN sessions => sessions' = sessions
             /\ resp'.cookie \notin DOMAIN sessions'
             /\ \A other \in DOMAIN sessions \ {resp'.cookie} :
                    other \in DOMAIN sessions' /\ sessions'[other] = sessions[other]]_vars

C20_AbsentTokenLoggedOut ==
    /\ resp.op = "Logout"
    /\ resp.cookie = Forged
    /\ resp.at = now
    /\ sessions # <<>>
    /\ removed \cap IssuedTokens # {}

(* C21: after Logout is handled for a request carrying token t, the      *)
(* session for t is gone from the store and every later protected request *)
(* carrying t is redirected to the login entry point; Logout with no      *)
(* cookie or with an unknown token removes no session and still clears    *)
(* the cookie and redirects.                                              *)
C21_LogoutEndsSession ==
    /\ [][resp' # resp /\ resp'.op = "Logout" =>
             /\ resp'.cookie \notin DOMAIN sessions'
             /\ resp'.cookie # NoCookie => resp'.cookie \in removed'
             /\ resp'.set = ClearSessionCookie
             /\ resp'.status = 303 /\ resp'.msg = LoginEntry
             /\ resp'.cookie \in {NoCookie, Forged} => sessions' = sessions]_vars
    /\ [](\A token \in removed : token \notin DOMAIN sessions)
    /\ [][ProtectedRequest /\ resp'.cookie \in removed =>
             /\ ~resp'.served
             /\ resp'.status = 303 /\ resp'.msg = LoginEntry
             /\ db' = db]_vars

C21_RedirectedAfterLogout ==
    /\ resp.op = "AuthMiddleware"
    /\ ~resp.served
    /\ resp.cookie \in removed \cap IssuedTokens
    /\ resp.at < TTL
    /\ \E token \in DOMAIN sessions : sessions[token].Expires > now

(* The group ids of the membership rows of userID *)
MembershipsOf(d, userID) == {m[2] : m \in {x \in d.user_groups : x[1] = userID}}

(* C22: UpdateUser(u, name, groups) is atomic: either the username is    *)
(* updated and u's membership set becomes exactly the given group ids,   *)
(* or, on failure of any step (a duplicate group id in the list, a       *)
(* duplicate username), the user row and u's previous memberships are    *)
(* left exactly as they were; the committed database never holds u with  *)
(* zero memberships or a partial set in between.                         *)
C22_UpdateUserAtomic ==
    [][tx' # tx =>
          /\ db' # db => tx.pc = "commit" /\ tx'.pc = "returned" /\ ~tx'.err
          /\ tx'.pc = "returned" /\ tx'.err => db' = db
          /\ tx.pc = "commit" /\ tx'.pc = "returned" /\ ~tx'.err =>
                /\ MembershipsOf(db', tx.userID) = Range(tx.groupIDs)
                /\ tx.userID \in DOMAIN db.users =>
                       db'.users[tx.userID].username = tx.username
                /\ DOMAIN db'.users = DOMAIN db.users
                /\ \A u \in DOMAIN db.users \ {tx.userID} :
                       /\ db'.users[u] = db.users[u]
                       /\ MembershipsOf(db', u) = MembershipsOf(db, u)
                /\ db'.groups = db.groups /\ db'.files = db.files
                /\ ~UpdateUser(db, tx.userID, tx.username, tx.groupIDs, FALSE).err
                /\ db' = UpdateUser(db, tx.userID, tx.username, tx.groupIDs, FALSE).db
          /\ UpdateUser(db, tx.userID, tx.username, tx.groupIDs, FALSE).err
             /\ tx.pc \notin {"idle", "returned"} /\ tx'.pc = "returned" => tx'.err]_vars

C22_RolledBackMidway ==
    /\ tx.pc = "returned" /\ tx.err
    /\ tx.userID \in DOMAIN db.users
    /\ tx.i = 2
    /\ tx.users # db.users
    /\ MembershipsOf(tx, tx.userID) # MembershipsOf(db, tx.userID)
    /\ MembershipsOf(db, tx.userID) # {}

(* C23: membership rows are cascade-deleted with either side: after      *)
(* DeleteUser(u) no membership row references u, after DeleteGroup(g) no *)
(* membership row references g, so in every reachable state each         *)
(* membership row refers to an existing user and an existing group.      *)
C23_MembershipsReferToRows ==
    \A m \in db.user_groups : m[1] \in DOMAIN db.users /\ m[2] \in DOMAIN db.groups

(* C24: the file handle opened by a fetch is released on every exit     *)
(* path: when a DownloadFile or ServeWorldFile request is in a terminal  *)
(* state (stream completed, stat failed, client gone during the copy) no *)
(* handle opened by it remains open, and a request that never opened the *)
(* file holds none.                                                      *)
C24_HandleReleased ==
    /\ dl.pc \in {"idle", "done"} => ~dl.handle
    /\ ~dl.touched => ~dl.handle
    /\ dl.handle => dl.pc \in {"stat", "copy"} /\ dl.access /\ ~dl.err

C24_StreamedAndClosed ==
    /\ dl.pc = "done"
    /\ dl.op = "ServeWorldFile"
    /\ dl.status = 200
    /\ dl.touched
    /\ ~dl.handle

(* The file rows whose stored path db' sets or changes *)
PathsWritten ==
    {f \in DOMAIN db'.files :
        f \notin DOMAIN db.files \/ db'.files[f].file_path # db.files[f].file_path}

Verified(c, d) ==
    \E u \in DOMAIN d.users :
        /\ d.users[u].username = c[1]
        /\ d.users[u].password_hash = GenerateFromPassword(c[2])

(* The step adds exactly one session, the one of the user of c as the *)
(* database has it, and the answer sets the cookie to its token        *)
MintsSessionOf(c) ==
    \E token \in DOMAIN sessions' \ DOMAIN sessions :
        /\ DOMAIN sessions' = DOMAIN sessions \cup {token}
        /\ \A other \in DOMAIN sessions : sessions'[other] = sessions[other]
        /\ resp'.set = token /\ resp'.status = 303
        /\ \E u \in DOMAIN db.users :
              /\ db.users[u].username = c[1]
              /\ sessions'[token].UserID = u
              /\ sessions'[token].Username = c[1]
              /\ Range(sessions'[token].GroupIDs) = MembershipsOf(db, u)
              /\ Len(sessions'[token].GroupIDs) = Cardinality(MembershipsOf(db, u))

(* A Login step creates a session exactly when made(c, ioErr, randErr) *)
LoginOutcome(made(_, _, _)) ==
    resp' # resp /\ resp'.op = "Login" =>
        \A c \in Credentials, ioErr \in BOOLEAN, randErr \in BOOLEAN :
            Login(c[1], c[2], ioErr, randErr) =>
                IF made(c, ioErr, randErr)
                THEN MintsSessionOf(c)
                ELSE sessions' = sessions /\ issued' = issued /\ resp'.set = ""

(* C26 as stated: Login creates a session iff credential verification   *)
(* succeeds: a failed login adds no session and sets no cookie, a        *)
(* successful one adds exactly one new session whose user id, name and   *)
(* group ids are the user's row and memberships in the database at the   *)
(* time of verification, and sets the cookie to that session's token.    *)
C26_SessionIffVerified ==
    [][LoginOutcome(LAMBDA c, ioErr, randErr : ~ioErr /\ Verified(c, db))]_vars

(* C26 amended: Login creates a session iff credential verification      *)
(* succeeds and SessionStore.Create returns a token; when Create fails    *)
(* the answer is 500 and, as for a failed login, no session is added and  *)
(* no cookie is set.                                                      *)
C26_SessionIffVerifiedAndCreated ==
    [][/\ LoginOutcome(LAMBDA c, ioErr, randErr : ~ioErr /\ Verified(c, db) /\ ~randErr)
       /\ resp' # resp /\ resp'.op = "Login" /\ resp'.status = 500 =>
              /\ resp'.msg = "Failed to create session"
              /\ \E c \in Credentials : Verified(c, db)]_vars

C26_LoggedInWithNewMemberships ==
    /\ resp.op = "Login" /\ resp.status = 303
    /\ resp.set \in DOMAIN sessions
    /\ sessions[resp.set].UserID = 2
    /\ MembershipsOf(db, 2) = {1, 2}
    /\ Range(sessions[resp.set].GroupIDs) = {1, 2}

(* C27: referential integrity of files holds in every reachable state:  *)
(* every file record's owning group id is the id of a group that exists, *)
(* also after an AdminAddFile or AdminEditFile with a malformed or       *)
(* unknown group id, or one that runs between the file count and the     *)
(* delete of an AdminDeleteGroup of its group.                           *)
C27_FilesReferToGroups ==
    \A f \in DOMAIN db.files : db.files[f].group_id \in DOMAIN db.groups

(* C28: listing and download agree: at any moment a file appears in the *)
(* FilesPage listing of a session iff a DownloadFile request for that    *)
(* file by the same session at that moment passes the access check, also *)
(* after the user's memberships were changed since login.                *)
C28_ListedIffDownloadable ==
    \A token \in DOMAIN sessions, f \in DOMAIN db.files :
        LET session == sessions[token]
        IN f \in FilesPage(session, db, FALSE).files
           <=> UserHasAccessToGroup(db, session.UserID, GetFileByID(db, f, FALSE).GroupID,
                                    FALSE).access

(* C29: the admin check inlined in AdminPage admits exactly the sessions *)
(* that isAdmin admits: for every session and every state of groups and  *)
(* memberships, AdminPage answers 403 iff isAdmin(session) is false.     *)
C29_AdminPageIffisAdmin ==
    \A token \in DOMAIN sessions :
        AdminPage(sessions[token], db, FALSE, FALSE, FALSE, FALSE).status = 403
        <=> ~isAdmin(sessions[token], db, FALSE)

(* C30: every user belongs to at least one existing group in every     *)
(* state reachable through the admin endpoints: no sequence of admin     *)
(* operations (AdminDeleteGroup of a group with members and no files, a  *)
(* malformed or unknown group id in the form) leaves a user whose        *)
(* memberships name no existing group.                                   *)
C30_UserInExistingGroup ==
    \A u \in DOMAIN db.users : MembershipsOf(db, u) \cap DOMAIN db.groups # {}

====
